---- MODULE Spec2Model ----
(***************************************************************************)
(* A model of tensorforce/models/distribution_model.py: the life of one    *)
(* DistributionModel object.  The constructor and initialize are modelled  *)
(* statement by statement (each may raise where the code calls out), the   *)
(* tf_* methods and optimizer_arguments as whole calls.                    *)
(*                                                                         *)
(* Python values: None is <<>> and any other value v of an attribute that  *)
(* may hold None is <<v>>; a dict is a function; the object is a function  *)
(* from the names of the attributes assigned so far to their values.       *)
(* Floats are modelled by integers.  What the framework returns (tensors,  *)
(* losses, entropies) is symbolic.                                         *)
(***************************************************************************)
EXTENDS Integers, Sequences, FiniteSets, TLC

VARIABLES args, self, phase, ctor_pc, init_pc, call, hist, result

vars == <<args, self, phase, ctor_pc, init_pc, call, hist, result>>

(* ------------------------------ bounds -------------------------------- *)

\* The largest number of actions of an actions_spec.
MaxActions == 2

(* --------------------------- Python values ---------------------------- *)

None == <<>>

Some(v) == <<v>>

Assign(obj, name, value) ==
    [k \in DOMAIN obj \cup {name} |-> IF k = name THEN value ELSE obj[k]]

EmptyDict == [k \in {} |-> None]

(* ------------------------- constructor inputs ------------------------- *)

NamePool == {"a", "b", "a_logits"}

ActionKinds ==
    { [type |-> "bool", shape |-> <<>>],
      [type |-> "int", shape |-> <<>>, num_actions |-> 3],
      [type |-> "float", shape |-> <<>>],
      [type |-> "float", shape |-> <<>>, min_value |-> 0, max_value |-> 4],
      [type |-> "text", shape |-> <<>>] }

ActionsSpecs ==
    UNION { [S -> ActionKinds] :
            S \in {T \in SUBSET NamePool : Cardinality(T) <= MaxActions} }

\* distributions_spec: None, or a dict naming an action and a foreign name.
DistributionsSpecs ==
    { None, Some([n \in {"a", "z"} |-> "custom"]) }

NetworkSpecs == {"dense", "lstm"}

EntropyRegularizations == {None, Some(-1), Some(0), Some(2)}

\* The constructor arguments under which the distributions and the methods
\* using them are explored: every actions_spec.
DistributionArgs ==
    [ actions : ActionsSpecs,
      network : {"dense"},
      distributions : DistributionsSpecs,
      entropy_regularization : {None, Some(2)},
      requires_deterministic : BOOLEAN ]

\* The constructor arguments under which construction, initialization and
\* regularization are explored: every entropy_regularization and network,
\* over the actions_specs of bool and unbounded float actions.
LifecycleArgs ==
    [ actions : { actions \in ActionsSpecs :
                    \A n \in DOMAIN actions :
                        /\ actions[n].type \in {"bool", "float"}
                        /\ "min_value" \notin DOMAIN actions[n] },
      network : NetworkSpecs,
      distributions : DistributionsSpecs,
      entropy_regularization : EntropyRegularizations,
      requires_deterministic : {FALSE} ]

(* ------------------------------ results ------------------------------- *)

NoResult == [op |-> "none"]

Raised(op, error, at) ==
    [op |-> op, outcome |-> "raised", error |-> error, at |-> at]

(* ---------------------------- constructor ----------------------------- *)

\* __init__ with the None assignments moved behind the superclass call.
CtorProgramSuperFirst ==
    << "store_specs", "assert_entropy", "store_entropy",
       "store_requires_deterministic", "super_init", "clear_members" >>

\* The statements of __init__, in the order of the code.
CtorProgram ==
    << "store_specs", "assert_entropy", "store_entropy",
       "store_requires_deterministic", "clear_members", "super_init" >>

\* The assertion with > in place of >=.
EntropyRegularizationStrictlyPositive(er) ==
    IF er = None THEN TRUE ELSE er[1] > 0

\* assert entropy_regularization is None or entropy_regularization >= 0.0
EntropyRegularizationValid(er) == IF er = None THEN TRUE ELSE er[1] >= 0

CtorAt(label) ==
    /\ phase = "constructing"
    /\ ctor_pc <= Len(CtorProgram)
    /\ CtorProgram[ctor_pc] = label

CtorAdvance ==
    /\ ctor_pc' = ctor_pc + 1
    /\ phase' = IF ctor_pc + 1 > Len(CtorProgram) THEN "constructed"
                ELSE "constructing"

CtorStoreSpecs ==
    /\ CtorAt("store_specs")
    /\ self' = Assign(Assign(self, "network_spec", args.network),
                      "distributions_spec", args.distributions)
    /\ CtorAdvance
    /\ UNCHANGED <<args, init_pc, call, hist, result>>

CtorAssertEntropy ==
    /\ CtorAt("assert_entropy")
    /\ \/ /\ EntropyRegularizationValid(args.entropy_regularization)
          /\ CtorAdvance
          /\ UNCHANGED hist
       \/ /\ ~EntropyRegularizationValid(args.entropy_regularization)
          /\ phase' = "ctor_raised"
          /\ hist' = [hist EXCEPT !.ctor_error = "AssertionError"]
          /\ UNCHANGED ctor_pc
    /\ UNCHANGED <<args, self, init_pc, call, result>>

CtorStoreEntropy ==
    /\ CtorAt("store_entropy")
    /\ self' = Assign(self, "entropy_regularization",
                      args.entropy_regularization)
    /\ CtorAdvance
    /\ UNCHANGED <<args, init_pc, call, hist, result>>

CtorStoreRequiresDeterministic ==
    /\ CtorAt("store_requires_deterministic")
    /\ self' = Assign(self, "requires_deterministic",
                      args.requires_deterministic)
    /\ CtorAdvance
    /\ UNCHANGED <<args, init_pc, call, hist, result>>

CtorClearMembers ==
    /\ CtorAt("clear_members")
    /\ self' = Assign(Assign(Assign(self, "network", None),
                             "distributions", None),
                      "fn_kl_divergence", None)
    /\ hist' = [hist EXCEPT !.cleared_after_super = hist.super_ctor_invoked]
    /\ CtorAdvance
    /\ UNCHANGED <<args, init_pc, call, result>>

\* What the superclass constructor leaves in internals_spec (a dict,
\* modelled by its key set); the superclass is not part of this file.
SuperInternalsSpecs == {{}, {"prior"}}

\* super(DistributionModel, self).__init__(...) is entered: the superclass
\* stores the specifications it was given.
CtorSuperInvoke ==
    /\ CtorAt("super_init")
    /\ \E internals \in SuperInternalsSpecs :
          self' = Assign(Assign(Assign(self, "actions_spec", args.actions),
                                "internals_spec", internals),
                         "summary_labels", {})
    /\ phase' = "in_super"
    /\ hist' = [hist EXCEPT !.super_ctor_invoked = TRUE]
    /\ UNCHANGED <<args, ctor_pc, init_pc, call, result>>

\* The superclass constructor returns, or raises.
CtorSuperReturn ==
    /\ phase = "in_super"
    /\ init_pc = 0
    /\ \/ /\ CtorAdvance
          /\ UNCHANGED hist
       \/ /\ phase' = "ctor_raised"
          /\ hist' = [hist EXCEPT !.ctor_error = "SuperError"]
          /\ UNCHANGED ctor_pc
    /\ UNCHANGED <<args, self, init_pc, call, result>>

(* ------------------------------ network ------------------------------- *)

\* Network.from_spec(spec=self.network_spec, ...): a new network, with no
\* named tensor yet.
NetworkFromSpec(spec) == [spec |-> spec, named_tensors |-> EmptyDict]

\* self.network.internals_spec(), a dict modelled by its key set.
NetworkInternalsSpec(network) ==
    IF network.spec = "lstm" THEN {"lstm"} ELSE {}

(* ------------------------ create_distributions ------------------------ *)

FromSpec(spec, action) == [cls |-> "FromSpec", spec |-> spec, kwargs |-> action]

Bernoulli(action) == [cls |-> "Bernoulli", shape |-> action.shape]

Categorical(action) ==
    [cls |-> "Categorical", shape |-> action.shape,
     num_actions |-> action.num_actions]

Beta(action) ==
    [cls |-> "Beta", shape |-> action.shape,
     min_value |-> action.min_value, max_value |-> action.max_value]

Gaussian(action) == [cls |-> "Gaussian", shape |-> action.shape]

\* The loop body with the action's type tested before distributions_spec.
DistributionBranchTypeFirst(distributions_spec, name, action) ==
    IF action.type = "bool" THEN "bernoulli"
    ELSE IF action.type = "int" THEN "categorical"
    ELSE IF action.type = "float"
         THEN IF "min_value" \in DOMAIN action THEN "beta" ELSE "gaussian"
    ELSE IF distributions_spec # None /\ name \in DOMAIN distributions_spec[1]
    THEN "from_spec"
    ELSE "skip"

\* The branch of the loop body that action `name` takes.
DistributionBranch(distributions_spec, name, action) ==
    IF distributions_spec # None /\ name \in DOMAIN distributions_spec[1]
    THEN "from_spec"
    ELSE IF action.type = "bool" THEN "bernoulli"
    ELSE IF action.type = "int" THEN "categorical"
    ELSE IF action.type = "float"
         THEN IF "min_value" \in DOMAIN action THEN "beta" ELSE "gaussian"
    ELSE "skip"

DistributionFor(distributions_spec, name, action) ==
    LET branch == DistributionBranch(distributions_spec, name, action)
    IN  CASE branch = "from_spec" ->
                 FromSpec(distributions_spec[1][name], action)
          [] branch = "bernoulli" -> Bernoulli(action)
          [] branch = "categorical" -> Categorical(action)
          [] branch = "beta" -> Beta(action)
          [] branch = "gaussian" -> Gaussian(action)

\* The names the loop assigns distributions[name] for.
DistributionNames(distributions_spec, actions_spec) ==
    { name \in DOMAIN actions_spec :
        DistributionBranch(distributions_spec, name, actions_spec[name])
            # "skip" }

create_distributions(distributions_spec, actions_spec) ==
    [ name \in DistributionNames(distributions_spec, actions_spec) |->
        DistributionFor(distributions_spec, name, actions_spec[name]) ]

(* ----------------------------- initialize ----------------------------- *)

\* initialize with internals_spec overwritten before the assertion.
InitializeProgramStoreFirst ==
    << "network", "store_internals", "assert_internals", "super_initialize",
       "create_distributions", "make_template" >>

\* The statements of initialize, in the order of the code.
InitializeProgram ==
    << "network", "assert_internals", "store_internals", "super_initialize",
       "create_distributions", "make_template" >>

\* tf.make_template(name_='kl-divergence', func_=self.tf_kl_divergence, ...)
KlDivergenceTemplate == [template |-> "kl-divergence"]

InitializeAt(label) ==
    /\ init_pc > 0
    /\ InitializeProgram[init_pc] = label

\* The next statement, or the normal return after the last one.
InitializeAdvance ==
    IF init_pc + 1 > Len(InitializeProgram)
    THEN /\ init_pc' = 0
         /\ result' = [op |-> "initialize", outcome |-> "returned"]
         /\ hist' = [hist EXCEPT !.init_returned = TRUE]
    ELSE /\ init_pc' = init_pc + 1
         /\ UNCHANGED <<result, hist>>

InitializeRaise(error) ==
    /\ init_pc' = 0
    /\ result' = Raised("initialize", error, InitializeProgram[init_pc])
    /\ UNCHANGED hist

\* The attributes of the object a call's entry snapshot keeps.
Snapshot(obj) ==
    [ k \in DOMAIN obj \cap {"internals_spec", "distributions",
                             "fn_kl_divergence"} |-> obj[k] ]

InitializeCall ==
    /\ phase \in {"in_super", "constructed"}
    /\ init_pc = 0
    /\ init_pc' = 1
    /\ call' = [entry |-> Snapshot(self), super_saw |-> None]
    /\ result' = NoResult
    /\ UNCHANGED <<args, self, phase, ctor_pc, hist>>

InitializeNetwork ==
    /\ InitializeAt("network")
    /\ \/ /\ self' = Assign(self, "network",
                            Some(NetworkFromSpec(self.network_spec)))
          /\ InitializeAdvance
       \/ /\ InitializeRaise("Error")
          /\ UNCHANGED self
    /\ UNCHANGED <<args, phase, ctor_pc, call>>

InitializeAssertInternals ==
    /\ InitializeAt("assert_internals")
    /\ \/ /\ Cardinality(self.internals_spec) = 0
          /\ InitializeAdvance
       \/ /\ Cardinality(self.internals_spec) # 0
          /\ InitializeRaise("AssertionError")
    /\ UNCHANGED <<args, self, phase, ctor_pc, call>>

InitializeStoreInternals ==
    /\ InitializeAt("store_internals")
    /\ self' = Assign(self, "internals_spec",
                      NetworkInternalsSpec(self.network[1]))
    /\ InitializeAdvance
    /\ UNCHANGED <<args, phase, ctor_pc, call>>

\* super(DistributionModel, self).initialize(custom_getter): the superclass
\* reads internals_spec, and completes or raises.
InitializeSuper ==
    /\ InitializeAt("super_initialize")
    /\ call' = [call EXCEPT !.super_saw = Some(self.internals_spec)]
    /\ \/ /\ init_pc' = init_pc + 1
          /\ hist' = [hist EXCEPT !.super_init_done = TRUE]
          /\ UNCHANGED result
       \/ InitializeRaise("Error")
    /\ UNCHANGED <<args, self, phase, ctor_pc>>

InitializeDistributions ==
    /\ InitializeAt("create_distributions")
    /\ \/ /\ self' = Assign(self, "distributions",
                            Some(create_distributions(self.distributions_spec,
                                                      self.actions_spec)))
          /\ InitializeAdvance
       \/ /\ InitializeRaise("Error")
          /\ UNCHANGED self
    /\ UNCHANGED <<args, phase, ctor_pc, call>>

InitializeTemplate ==
    /\ InitializeAt("make_template")
    /\ \/ /\ self' = Assign(self, "fn_kl_divergence",
                            Some(KlDivergenceTemplate))
          /\ InitializeAdvance
       \/ /\ InitializeRaise("Error")
          /\ UNCHANGED self
    /\ UNCHANGED <<args, phase, ctor_pc, call>>

(* ---------------------- tf_actions_and_internals ---------------------- *)

\* The orders in which a dict with key set S may be iterated.
Orderings(S) ==
    { order \in [1..Cardinality(S) -> S] :
        \A i, j \in 1..Cardinality(S) : order[i] = order[j] => i = j }

\* Whether the methods can use the network and the distributions; with
\* either still None the call raises AttributeError before any effect.
Usable(obj) == obj.network # None /\ obj.distributions # None

\* distribution.parameterize(x=embedding): a tuple of three tensors, each
\* identified by its distribution and its (Python) position.
Parameterize(name) ==
    << [distribution |-> name, position |-> 0],
       [distribution |-> name, position |-> 1],
       [distribution |-> name, position |-> 2] >>

\* Sampling with the caller's flag alone.
SampleFlagCallerOnly(deterministic, requires_deterministic) == deterministic

\* tf.logical_or(x=deterministic, y=self.requires_deterministic)
SampleFlag(deterministic, requires_deterministic) ==
    deterministic \/ requires_deterministic

\* distribution.sample(distr_params=..., deterministic=...)
Sample(name, distr_params, deterministic) ==
    [ distribution |-> name, distr_params |-> distr_params,
      deterministic |-> deterministic ]

\* Naming without any prefix.
NamePrefixNone(name, count) == ""

\* Prefix named variable with "name_" if more than 1 distribution
NamePrefix(name, count) == IF count > 1 THEN name \o "_" ELSE ""

\* The three set_named_tensor calls of one iteration.
SetNamedTensors(named, name, count, distr_params) ==
    LET prefix == NamePrefix(name, count)
    IN  Assign(Assign(Assign(named, prefix \o "logits", distr_params[1]),
                      prefix \o "probabilities", distr_params[2]),
               prefix \o "state_value", distr_params[3])

\* The named tensors after the iterations order[i], order[i + 1], ...
RECURSIVE LoopNamedTensors(_, _, _)
LoopNamedTensors(named, order, i) ==
    IF i > Len(order) THEN named
    ELSE LoopNamedTensors(
             SetNamedTensors(named, order[i], Len(order),
                             Parameterize(order[i])),
             order, i + 1)

TfActionsAndInternals ==
    /\ phase = "constructed"
    /\ init_pc = 0
    /\ \E deterministic \in BOOLEAN :
        IF ~Usable(self)
        THEN /\ result' = Raised("tf_actions_and_internals",
                                 "AttributeError", "")
             /\ UNCHANGED self
        ELSE \E order \in Orderings(DOMAIN self.distributions[1]) :
               /\ self' = Assign(self, "network",
                      Some([self.network[1] EXCEPT !.named_tensors =
                              LoopNamedTensors(@, order, 1)]))
               /\ result' =
                    [ op |-> "tf_actions_and_internals",
                      outcome |-> "returned",
                      deterministic |-> deterministic,
                      actions |->
                        [ name \in DOMAIN self.distributions[1] |->
                            Sample(name, Parameterize(name),
                                   SampleFlag(deterministic,
                                              self.requires_deterministic)) ] ]
    /\ UNCHANGED <<args, phase, ctor_pc, init_pc, call, hist>>

(* ---------------------- tf_regularization_losses ---------------------- *)

\* A loss value is a fraction <<numerator, denominator>>.
Loss(n) == <<n, 1>>

AddLoss(x, y) == <<x[1] * y[2] + y[1] * x[2], x[2] * y[2]>>

\* What the superclass may return; the superclass is not part of this file.
SuperLosses ==
    { EmptyDict,
      [baseline |-> Loss(7)],
      [baseline |-> Loss(7), network |-> Loss(20), distributions |-> Loss(30),
       entropy |-> Loss(40)] }

\* self.network.regularization_loss(): None, or a loss; here a recurrent
\* network is the one configured with regularization.
NetworkRegularizationLoss(network) ==
    IF network.spec = "lstm" THEN Some(Loss(1)) ELSE None

\* distribution.regularization_loss(): None, or a loss; here a distribution
\* built from a specification is the one configured with regularization.
DistributionRegularizationLoss(distribution) ==
    IF distribution.cls = "FromSpec" THEN Some(Loss(1)) ELSE None

\* distribution.entropy(distr_params=...), a symbolic value per class.
Entropy(distribution) ==
    CASE distribution.cls = "Bernoulli" -> 1
      [] distribution.cls = "Categorical" -> 2
      [] distribution.cls = "Beta" -> 3
      [] distribution.cls = "Gaussian" -> 5
      [] distribution.cls = "FromSpec" -> 8

\* The loop over self.distributions.values() adding the regularization
\* losses that are not None, over the distributions `names` still to visit.
RECURSIVE AddDistributionLosses(_, _, _)
AddDistributionLosses(losses, distributions, names) ==
    IF names = {} THEN losses
    ELSE LET name == CHOOSE n \in names : TRUE
             loss == DistributionRegularizationLoss(distributions[name])
             added ==
                 IF loss = None THEN losses
                 ELSE IF "distributions" \in DOMAIN losses
                 THEN Assign(losses, "distributions",
                             AddLoss(losses.distributions, loss[1]))
                 ELSE Assign(losses, "distributions", loss[1])
         IN  AddDistributionLosses(added, distributions, names \ {name})

RECURSIVE SumEntropies(_, _)
SumEntropies(distributions, names) ==
    IF names = {} THEN 0
    ELSE LET name == CHOOSE n \in names : TRUE
         IN  Entropy(distributions[name])
               + SumEntropies(distributions, names \ {name})

\* The entropy test with >= in place of >.
EntropyRegularizedAtZero(er) == IF er = None THEN FALSE ELSE er[1] >= 0

\* if self.entropy_regularization is not None and ... > 0.0
EntropyRegularized(er) == IF er = None THEN FALSE ELSE er[1] > 0

\* -self.entropy_regularization * entropy, entropy the mean over the
\* concatenated entropies of all distributions.
EntropyLoss(er, distributions) ==
    << (0 - er[1]) * SumEntropies(distributions, DOMAIN distributions),
       Cardinality(DOMAIN distributions) >>

TfRegularizationLosses ==
    /\ phase = "constructed"
    /\ init_pc = 0
    /\ IF ~Usable(self)
       THEN result' = Raised("tf_regularization_losses", "AttributeError", "")
       ELSE \E super_losses \in SuperLosses :
              LET distributions == self.distributions[1]
                  network_loss == NetworkRegularizationLoss(self.network[1])
                  with_network ==
                      IF network_loss # None
                      THEN Assign(super_losses, "network", network_loss[1])
                      ELSE super_losses
                  losses == AddDistributionLosses(with_network, distributions,
                                                  DOMAIN distributions)
              IN  IF ~EntropyRegularized(self.entropy_regularization)
                  THEN result' =
                         [ op |-> "tf_regularization_losses",
                           outcome |-> "returned",
                           super |-> super_losses,
                           network_applied |-> 0,
                           losses |-> losses ]
                  ELSE IF DOMAIN distributions = {}
                  THEN \* tf.concat of an empty list raises
                       result' = Raised("tf_regularization_losses",
                                        "ValueError", "concat")
                  ELSE result' =
                         [ op |-> "tf_regularization_losses",
                           outcome |-> "returned",
                           super |-> super_losses,
                           network_applied |-> 1,
                           losses |->
                             Assign(losses, "entropy",
                                    EntropyLoss(self.entropy_regularization,
                                                distributions)) ]
    /\ UNCHANGED <<args, self, phase, ctor_pc, init_pc, call, hist>>

(* ------------------------ optimizer_arguments ------------------------- *)

Tensor(name) == Some([tensor |-> name])

\* What the superclass may return; the superclass is not part of this file.
SuperArguments ==
    { [states |-> Tensor("states"), reward |-> Tensor("reward")],
      [states |-> Tensor("states"), fn_kl_divergence |-> None],
      [fn_loss |-> Tensor("loss"),
       fn_kl_divergence |-> Some([template |-> "super"])] }

\* Setting the entry only when the superclass has not set it.
WithKlDivergenceDefault(arguments, fn_kl_divergence) ==
    IF "fn_kl_divergence" \in DOMAIN arguments THEN arguments
    ELSE Assign(arguments, "fn_kl_divergence", fn_kl_divergence)

\* arguments['fn_kl_divergence'] = self.fn_kl_divergence
WithKlDivergence(arguments, fn_kl_divergence) ==
    Assign(arguments, "fn_kl_divergence", fn_kl_divergence)

OptimizerArguments ==
    /\ phase = "constructed"
    /\ init_pc = 0
    /\ \E super_arguments \in SuperArguments :
          result' = [ op |-> "optimizer_arguments",
                      outcome |-> "returned",
                      super |-> super_arguments,
                      arguments |->
                        WithKlDivergence(super_arguments,
                                         self.fn_kl_divergence) ]
    /\ UNCHANGED <<args, self, phase, ctor_pc, init_pc, call, hist>>

(* --------------------------- specification ---------------------------- *)

InitialState(arguments) ==
    /\ args = arguments
    /\ self = EmptyDict
    /\ phase = "constructing"
    /\ ctor_pc = 1
    /\ init_pc = 0
    /\ call = [entry |-> EmptyDict, super_saw |-> None]
    /\ hist = [ super_ctor_invoked |-> FALSE, cleared_after_super |-> FALSE,
                ctor_error |-> "", super_init_done |-> FALSE,
                init_returned |-> FALSE ]
    /\ result = NoResult

Init == \E arguments \in DistributionArgs : InitialState(arguments)

LifecycleInit == \E arguments \in LifecycleArgs : InitialState(arguments)

Next ==
    \/ CtorStoreSpecs
    \/ CtorAssertEntropy
    \/ CtorStoreEntropy
    \/ CtorStoreRequiresDeterministic
    \/ CtorClearMembers
    \/ CtorSuperInvoke
    \/ CtorSuperReturn
    \/ InitializeCall
    \/ InitializeNetwork
    \/ InitializeAssertInternals
    \/ InitializeStoreInternals
    \/ InitializeSuper
    \/ InitializeDistributions
    \/ InitializeTemplate
    \/ TfActionsAndInternals
    \/ TfRegularizationLosses
    \/ OptimizerArguments

Spec == Init /\ [][Next]_vars

LifecycleSpec == LifecycleInit /\ [][Next]_vars

(* ----------------------------- properties ------------------------------ *)

\* Whether attribute `name` has been assigned a value other than None.
Has(name) == IF name \in DOMAIN self THEN self[name] # None ELSE FALSE

Returned(op) ==
    IF result.op = op THEN result.outcome = "returned" ELSE FALSE

\* C1: the constructor accepts entropy_regularization only when it is None
\* or >= 0: a negative value fails the assertion before the superclass
\* constructor is invoked and before anything is stored; None, 0 and a
\* positive value pass the assertion and are stored unchanged.
C1_EntropyRegularizationChecked ==
    LET er == args.entropy_regularization
        negative == IF er = None THEN FALSE ELSE er[1] < 0
    IN  /\ negative =>
            /\ ~hist.super_ctor_invoked
            /\ phase \in {"constructing", "ctor_raised"}
            /\ phase = "ctor_raised" => hist.ctor_error = "AssertionError"
            /\ "entropy_regularization" \notin DOMAIN self
            /\ "actions_spec" \notin DOMAIN self
        /\ ~negative =>
            /\ hist.ctor_error # "AssertionError"
            /\ "entropy_regularization" \in DOMAIN self =>
                   self.entropy_regularization = er
            /\ phase \in {"in_super", "constructed"} =>
                   /\ "entropy_regularization" \in DOMAIN self
                   /\ self.entropy_regularization = er

\* A negative entropy_regularization has made the constructor raise.
C1_Witness ==
    /\ args.entropy_regularization = Some(-1)
    /\ phase = "ctor_raised"
    /\ hist.ctor_error = "AssertionError"

\* C2: every action of one tf_actions_and_internals call is sampled with
\* the flag (deterministic OR requires_deterministic): stochastic only when
\* both are false, never stochastic when requires_deterministic is true.
C2_EffectiveDeterministicFlag ==
    Returned("tf_actions_and_internals") =>
        \A name \in DOMAIN result.actions :
            /\ result.actions[name].deterministic =
                   (result.deterministic \/ self.requires_deterministic)
            /\ ~result.actions[name].deterministic =>
                   (~result.deterministic /\ ~self.requires_deterministic)
            /\ self.requires_deterministic =>
                   result.actions[name].deterministic

\* A call with deterministic false on a model that requires deterministic
\* sampling has sampled two actions.
C2_Witness ==
    /\ Returned("tf_actions_and_internals")
    /\ ~result.deterministic
    /\ self.requires_deterministic
    /\ Cardinality(DOMAIN result.actions) = 2

\* C3: initialize requires internals_spec to be empty on entry.  When the
\* assertion fails, internals_spec, distributions and fn_kl_divergence are
\* as on entry (None stays None) and the superclass initialize was not
\* invoked; whenever the superclass initialize is invoked, internals_spec
\* was empty on entry and already holds the network's internals spec.
C3_InternalsSpecEmptyOnEntry ==
    /\ ( /\ result.op = "initialize"
         /\ result.outcome = "raised"
         /\ result.error = "AssertionError" ) =>
            /\ call.entry.internals_spec # {}
            /\ self.internals_spec = call.entry.internals_spec
            /\ call.super_saw = None
            /\ self.distributions = call.entry.distributions
            /\ self.fn_kl_divergence = call.entry.fn_kl_divergence
            /\ call.entry.distributions = None => self.distributions = None
            /\ call.entry.fn_kl_divergence = None =>
                   self.fn_kl_divergence = None
    /\ call.super_saw # None =>
            /\ call.entry.internals_spec = {}
            /\ call.super_saw[1] =
                   (IF self.network[1].spec = "lstm" THEN {"lstm"} ELSE {})
            /\ self.internals_spec = call.super_saw[1]

\* The assertion of initialize has failed on an object whose distributions
\* were still None.
C3_Witness ==
    /\ result.op = "initialize"
    /\ result.outcome = "raised"
    /\ result.error = "AssertionError"
    /\ self.distributions = None

\* C4: after tf_actions_and_internals the network holds, for every
\* distribution, its parameters 0, 1 and 2 under logits, probabilities and
\* state_value: unprefixed with exactly one distribution, prefixed by the
\* action name and '_' with more than one; no two distributions share a key.
C4_NamedTensors ==
    Returned("tf_actions_and_internals") =>
        LET names == DOMAIN self.distributions[1]
            named == self.network[1].named_tensors
            key(name, tensor) ==
                IF Cardinality(names) = 1 THEN tensor
                ELSE name \o "_" \o tensor
            keys == { key(name, tensor) :
                        name \in names,
                        tensor \in {"logits", "probabilities", "state_value"} }
        IN  /\ \A name \in names :
                /\ key(name, "logits") \in DOMAIN named
                /\ named[key(name, "logits")] =
                       [distribution |-> name, position |-> 0]
                /\ key(name, "probabilities") \in DOMAIN named
                /\ named[key(name, "probabilities")] =
                       [distribution |-> name, position |-> 1]
                /\ key(name, "state_value") \in DOMAIN named
                /\ named[key(name, "state_value")] =
                       [distribution |-> name, position |-> 2]
            /\ Cardinality(keys) = 3 * Cardinality(names)

\* The tensors of the two distributions a and a_logits have been named.
C4_Witness ==
    /\ Returned("tf_actions_and_internals")
    /\ DOMAIN self.distributions[1] = {"a", "a_logits"}
    /\ "a_logits_logits" \in DOMAIN self.network[1].named_tensors

\* C5: create_distributions builds an action's distribution from its
\* distributions_spec entry when there is one, whatever the type; otherwise
\* bool gives Bernoulli, int Categorical with num_actions, float with a
\* min_value key Beta with min_value and max_value, float without Gaussian.
C5_DistributionPriority ==
    Has("distributions") =>
        LET distributions == self.distributions[1]
            spec == self.distributions_spec
        IN  \A name \in DOMAIN self.actions_spec :
              LET action == self.actions_spec[name]
                  named == IF spec = None THEN FALSE
                           ELSE name \in DOMAIN spec[1]
              IN  /\ named =>
                        /\ name \in DOMAIN distributions
                        /\ distributions[name].cls = "FromSpec"
                        /\ distributions[name].spec = spec[1][name]
                  /\ (~named /\ action.type = "bool") =>
                        /\ name \in DOMAIN distributions
                        /\ distributions[name].cls = "Bernoulli"
                  /\ (~named /\ action.type = "int") =>
                        /\ name \in DOMAIN distributions
                        /\ distributions[name].cls = "Categorical"
                        /\ distributions[name].num_actions =
                               action.num_actions
                  /\ ( /\ ~named
                       /\ action.type = "float"
                       /\ "min_value" \in DOMAIN action ) =>
                        /\ name \in DOMAIN distributions
                        /\ distributions[name].cls = "Beta"
                        /\ distributions[name].min_value = action.min_value
                        /\ distributions[name].max_value = action.max_value
                  /\ ( /\ ~named
                       /\ action.type = "float"
                       /\ "min_value" \notin DOMAIN action ) =>
                        /\ name \in DOMAIN distributions
                        /\ distributions[name].cls = "Gaussian"

\* Distributions were created for a bool action named in distributions_spec
\* and for a bounded float action that is not.
C5_Witness ==
    /\ Has("distributions")
    /\ self.distributions_spec # None
    /\ DOMAIN self.actions_spec = {"a", "b"}
    /\ self.actions_spec["a"].type = "bool"
    /\ DOMAIN self.distributions[1] = {"a", "b"}
    /\ self.distributions[1]["a"].cls = "FromSpec"
    /\ self.distributions[1]["b"].cls = "Beta"

\* C6: create_distributions returns exactly one distribution per action
\* name of actions_spec, and tf_actions_and_internals returns an action for
\* exactly the action names of actions_spec.
C6_OneDistributionPerAction ==
    /\ Has("distributions") =>
           DOMAIN self.distributions[1] = DOMAIN self.actions_spec
    /\ Returned("tf_actions_and_internals") =>
           DOMAIN result.actions = DOMAIN self.actions_spec

\* C7: tf_regularization_losses adds an 'entropy' entry exactly when
\* entropy_regularization is not None and > 0.  With None or 0 no entry is
\* added and the network is not applied; with a positive value the entry is
\* minus entropy_regularization times the mean entropy of the distributions.
\* Every superclass entry under another key than 'network', 'distributions'
\* and 'entropy' is returned unchanged.
C7_EntropyLoss ==
    Returned("tf_regularization_losses") =>
        LET er == self.entropy_regularization
            positive == IF er = None THEN FALSE ELSE er[1] > 0
            losses == result.losses
            super == result.super
            distributions == self.distributions[1]
        IN  /\ "entropy" \notin DOMAIN super =>
                   (("entropy" \in DOMAIN losses) <=> positive)
            /\ ~positive =>
                   /\ result.network_applied = 0
                   /\ ("entropy" \in DOMAIN losses) <=>
                          ("entropy" \in DOMAIN super)
                   /\ "entropy" \in DOMAIN super =>
                          losses.entropy = super.entropy
            /\ positive =>
                   /\ "entropy" \in DOMAIN losses
                   /\ losses.entropy[2] = Cardinality(DOMAIN distributions)
                   /\ losses.entropy[1] =
                          (0 - er[1]) * SumEntropies(distributions,
                                                     DOMAIN distributions)
            /\ \A k \in DOMAIN super \ {"network", "distributions", "entropy"} :
                   /\ k \in DOMAIN losses
                   /\ losses[k] = super[k]

\* Losses with an entropy entry over a Bernoulli and a Gaussian were
\* returned on top of a superclass entry.
C7_Witness ==
    /\ Returned("tf_regularization_losses")
    /\ self.entropy_regularization = Some(2)
    /\ DOMAIN result.super = {"baseline"}
    /\ result.losses.entropy = <<-12, 2>>

\* C8: fn_kl_divergence is non-None only if distributions is, distributions
\* only if network is and the superclass initialize has completed; after an
\* initialize that returned normally all three are non-None; the constructor
\* assigns None to the three only before it invokes the superclass
\* constructor.
C8_MembersInOrder ==
    /\ Has("fn_kl_divergence") => Has("distributions")
    /\ Has("distributions") => (Has("network") /\ hist.super_init_done)
    /\ Returned("initialize") =>
           /\ Has("network")
           /\ Has("distributions")
           /\ Has("fn_kl_divergence")
    /\ ~hist.cleared_after_super

\* An initialize call has raised in make_template, leaving distributions
\* set and fn_kl_divergence None.
C8_Witness ==
    /\ result.op = "initialize"
    /\ result.outcome = "raised"
    /\ result.at = "make_template"
    /\ Has("distributions")
    /\ ~Has("fn_kl_divergence")

\* C9: optimizer_arguments returns the superclass's arguments with the one
\* entry 'fn_kl_divergence' set to the model's template: the other entries
\* are unchanged, no other key is added or removed, and once initialize has
\* returned normally the entry is not None.
C9_OptimizerArguments ==
    Returned("optimizer_arguments") =>
        /\ DOMAIN result.arguments =
               DOMAIN result.super \cup {"fn_kl_divergence"}
        /\ \A k \in DOMAIN result.super \ {"fn_kl_divergence"} :
               result.arguments[k] = result.super[k]
        /\ result.arguments.fn_kl_divergence = self.fn_kl_divergence
        /\ hist.init_returned =>
               result.arguments.fn_kl_divergence = Some(KlDivergenceTemplate)

\* After a normal initialize, an entry the superclass had set to None was
\* replaced.
C9_Witness ==
    /\ Returned("optimizer_arguments")
    /\ hist.init_returned
    /\ "fn_kl_divergence" \in DOMAIN result.super
    /\ result.super.fn_kl_divergence = None

====
